---------------------------- MODULE Spec2Model ----------------------------
(***************************************************************************)
(* A model of youtube_comment_analyzer.py (class YouTubeCommentAnalyzer).  *)
(*                                                                         *)
(* Strings are modelled as sequences of one-character strings, so that     *)
(* the two regular expressions of the program and str.lower() are          *)
(* computed character by character.  A comment delivered by the remote API *)
(* is a record [id, text, like_count]: id stands for the fields that       *)
(* get_comments copies through untouched (author, published_at,            *)
(* reply_count).  The remote API, the sentiment scorer (TextBlob) and the  *)
(* sort of pandas are the environment: they are nondeterministic within    *)
(* their documented contracts.                                             *)
(***************************************************************************)
EXTENDS Integers, Sequences, FiniteSets, TLC

VARIABLES
    pc,               \* position of the running call
    url,              \* generate_report's url argument
    video_id,         \* result of extract_video_id
    details,          \* result of get_video_details
    max_comments,     \* the max_comments argument
    video,            \* remote: the video's top-level comments, in API order
    metadata,         \* remote: outcome of the videos().list lookup
    comments,         \* get_comments: the accumulated list
    comment_count,    \* get_comments: the counter
    next_page_token,  \* get_comments: the continuation token held
    ret,              \* value returned by get_comments
    requested,        \* history: a commentThreads request has been issued
    reqToken,         \* history: pageToken of the latest request
    reqSize,          \* history: maxResults of the latest request
    respToken,        \* history: nextPageToken of the latest response
    failed,           \* history: a commentThreads request raised HttpError
    accAtFail,        \* history: the comments accumulated when it was raised
    detailReqs,       \* history: number of videos().list requests issued
    scorer,           \* environment: TextBlob as a function of the text
    analyzed,         \* comments after analyze_sentiment
    min_length,       \* extract_common_words arguments
    max_words,
    stopwords,
    common_words,     \* result of extract_common_words
    top_comments,     \* popular_comments: indices into analyzed
    results           \* value returned by generate_report

vars == <<pc, url, video_id, details, max_comments, video, metadata, comments,
          comment_count, next_page_token, ret, requested, reqToken, reqSize,
          respToken, failed, accAtFail, detailReqs, scorer, analyzed,
          min_length, max_words, stopwords, common_words, top_comments,
          results>>

fetchVars == <<comments, comment_count, next_page_token, ret, requested,
               reqToken, reqSize, respToken, failed, accAtFail>>
inputVars == <<url, max_comments, video, metadata, scorer, min_length,
               max_words, stopwords>>
reportVars == <<analyzed, common_words, top_comments, results>>

(***************************************************************************)
(* Program constants and bounds of the model.                              *)
(***************************************************************************)
PageCap == 100
NoToken == 0
IdLen == 11
TopK == 5
DefaultMinLength == 4
DefaultMaxWords == 100

SmallN == 2
Over == 2
MaxLikes == 1
MaxPieces == 3
MaxItems == 3
MaxMinLength == 2
MaxMaxWords == 2
DfExtra == 1

Min(a, b) == IF a <= b THEN a ELSE b
Max(a, b) == IF a >= b THEN a ELSE b


(***************************************************************************)
(* Characters and strings                                                  *)
(***************************************************************************)
Digits ==
    {"0", "1", "2", "3", "4", "5", "6", "7", "8", "9"}
UpperLetters ==
    <<"A", "B", "C", "D", "E", "F", "G", "H", "I", "J", "K", "L", "M",
      "N", "O", "P", "Q", "R", "S", "T", "U", "V", "W", "X", "Y", "Z">>
LowerLetters ==
    <<"a", "b", "c", "d", "e", "f", "g", "h", "i", "j", "k", "l", "m",
      "n", "o", "p", "q", "r", "s", "t", "u", "v", "w", "x", "y", "z">>

Range(s) == { s[i] : i \in DOMAIN s }

\* [a-zA-Z]
IsAlpha(c) == c \in Range(UpperLetters) \cup Range(LowerLetters)

\* \w, on the characters of the model
IsWordChar(c) == IsAlpha(c) \/ c \in Digits \/ c = "_"

\* [0-9A-Za-z_-]
IsIdChar(c) == IsAlpha(c) \/ c \in Digits \/ c = "_" \/ c = "-"

\* str.lower(), character by character.
LowerChar(c) ==
    IF \E k \in DOMAIN UpperLetters : UpperLetters[k] = c
      THEN LowerLetters[CHOOSE k \in DOMAIN UpperLetters : UpperLetters[k] = c]
      ELSE c

lower(s) == [i \in DOMAIN s |-> LowerChar(s[i])]

\* n copies of the character c.
Rep(c, n) == [i \in 1 .. n |-> c]

RECURSIVE Flatten(_)
Flatten(ss) == IF ss = <<>> THEN <<>> ELSE Head(ss) \o Flatten(Tail(ss))

\* The sequences over S of length at most n.
SeqsUpTo(S, n) == UNION { [1 .. k -> S] : k \in 0 .. n }

(***************************************************************************)
(* extract_video_id (lines 28-33)                                          *)
(*   re.search(r'(?:v=|\/)([0-9A-Za-z_-]{11}).*', url)                     *)
(***************************************************************************)
NoMatch == [matched |-> FALSE]

\* ([0-9A-Za-z_-]{11}) from position g on; the trailing .* matches anything.
GroupAt(s, g) ==
    IF g + IdLen - 1 <= Len(s) /\ \A j \in g .. (g + IdLen - 1) : IsIdChar(s[j])
      THEN [matched |-> TRUE, group |-> SubSeq(s, g, g + IdLen - 1)]
      ELSE NoMatch

\* The pattern tried at position i: the alternation, then the group.
MatchAt(s, i) ==
    IF s[i] = "v" /\ i + 1 <= Len(s) /\ s[i + 1] = "="
      THEN GroupAt(s, i + 2)
      ELSE IF s[i] = "/" THEN GroupAt(s, i + 1) ELSE NoMatch

\* re.search: the match at the leftmost position that has one.
RECURSIVE SearchFrom(_, _)
SearchFrom(s, i) ==
    IF i > Len(s) THEN NoMatch
    ELSE IF MatchAt(s, i).matched THEN MatchAt(s, i)
    ELSE SearchFrom(s, i + 1)

\* The returned value: group(1) of the match, or None (matched = FALSE).
extract_video_id(u) == SearchFrom(u, 1)

(***************************************************************************)
(* analyze_sentiment (lines 100-115)                                       *)
(***************************************************************************)
\* 0.1, in units of 1/100000.
PolarityThreshold == 10000

SentimentLoose(polarity) ==
    IF polarity >= PolarityThreshold THEN "positive"
    ELSE IF polarity <= 0 - PolarityThreshold THEN "negative"
    ELSE "neutral"

\* Lines 108-113.
Sentiment(polarity) ==
    IF polarity > PolarityThreshold THEN "positive"
    ELSE IF polarity < 0 - PolarityThreshold THEN "negative"
    ELSE "neutral"

\* One iteration of the loop: the three fields added to the comment.
Annotate(c, score) ==
    [id |-> c.id, text |-> c.text, like_count |-> c.like_count,
     polarity |-> score.polarity, subjectivity |-> score.subjectivity,
     sentiment |-> Sentiment(score.polarity)]

analyze_sentiment(cs, textblob) ==
    [i \in DOMAIN cs |-> Annotate(cs[i], textblob[cs[i].text])]

(***************************************************************************)
(* extract_common_words (lines 117-129)                                    *)
(***************************************************************************)
DefaultStopwords ==
    { <<"t", "h", "e">>, <<"a", "n", "d">>, <<"i", "s">>, <<"o", "f">>,
      <<"t", "o">>, <<"i", "n">>, <<"t", "h", "a", "t">>, <<"i", "t">>,
      <<"w", "i", "t", "h">>, <<"f", "o", "r">>, <<"o", "n">>,
      <<"a", "t">>, <<"t", "h", "i", "s">>, <<"w", "a", "s">>,
      <<"a", "r", "e">>, <<"b", "e">>, <<"a", "s">>, <<"b", "u", "t">>,
      <<"o", "r">>, <<"h", "a", "v", "e">>, <<"f", "r", "o", "m">>,
      <<"b", "y">>, <<"n", "o", "t">>, <<"w", "h", "a", "t">>,
      <<"a", "l", "l">>, <<"w", "e", "r", "e">>, <<"w", "h", "e", "n">>,
      <<"w", "e">>, <<"t", "h", "e", "r", "e">>, <<"b", "e", "e", "n">>,
      <<"o", "n", "e">>, <<"w", "i", "l", "l">>,
      <<"w", "o", "u", "l", "d">>, <<"w", "h", "o">>, <<"y", "o", "u">>,
      <<"y", "o", "u", "r">>, <<"t", "h", "e", "y">>,
      <<"t", "h", "e", "i", "r">>, <<"h", "a", "s">>, <<"h", "a", "d">>,
      <<"h", "o", "w">>, <<"u", "p">>, <<"h", "i", "s">>,
      <<"h", "e", "r">>, <<"a", "n">>, <<"m", "y">>, <<"s", "o">>,
      <<"i", "f">>, <<"o", "u", "t">>, <<"a", "b", "o", "u", "t">>,
      <<"m", "e">>, <<"n", "o">>, <<"m", "o", "r", "e">>, <<"d", "o">>,
      <<"c", "a", "n">> }

\* \b before position p (1 .. Len(s) + 1).
BoundaryAnywhere(s, p) == TRUE
Boundary(s, p) ==
    LET before == p > 1 /\ IsWordChar(s[p - 1])
        after  == p <= Len(s) /\ IsWordChar(s[p])
    IN  before # after

\* \b[a-zA-Z]{m,}\b tried at position i: the end of the match, 0 if none.
\* The quantifier is greedy and backtracks, so the longest run of letters
\* from i that ends at a boundary is taken.
WordEnd(s, i, m) ==
    LET ends == { e \in (i + m - 1) .. Len(s) :
                    /\ \A j \in i .. e : IsAlpha(s[j])
                    /\ Boundary(s, e + 1) }
    IN  IF Boundary(s, i) /\ ends # {}
          THEN CHOOSE e \in ends : \A f \in ends : f <= e
          ELSE 0

\* re.findall: the non-overlapping matches, scanning left to right.
RECURSIVE FindAllFrom(_, _, _)
FindAllFrom(s, i, m) ==
    IF i > Len(s) THEN <<>>
    ELSE IF WordEnd(s, i, m) # 0
      THEN <<SubSeq(s, i, WordEnd(s, i, m))>> \o
             FindAllFrom(s, WordEnd(s, i, m) + 1, m)
      ELSE FindAllFrom(s, i + 1, m)

findall(s, m) == FindAllFrom(s, 1, m)

\* [word for word in words if word not in stopwords]
RECURSIVE NotIn(_, _)
NotIn(ws, stop) ==
    IF ws = <<>> THEN <<>>
    ELSE IF Head(ws) \in stop THEN NotIn(Tail(ws), stop)
    ELSE <<Head(ws)>> \o NotIn(Tail(ws), stop)

\* all_words after the loop over the comments (lines 123-127).
RECURSIVE AllWords(_, _, _)
AllWords(cs, m, stop) ==
    IF cs = <<>> THEN <<>>
    ELSE NotIn(findall(lower(Head(cs).text), m), stop) \o
           AllWords(Tail(cs), m, stop)

\* Counter(all_words): the counts, keyed in order of first occurrence.
RECURSIVE Counter(_)
Counter(ws) ==
    IF ws = <<>> THEN <<>>
    ELSE LET rest == Counter(SubSeq(ws, 1, Len(ws) - 1))
             w    == ws[Len(ws)]
         IN  IF \E k \in DOMAIN rest : rest[k].word = w
               THEN [k \in DOMAIN rest |->
                       IF rest[k].word = w
                         THEN [word |-> w, count |-> rest[k].count + 1]
                         ELSE rest[k]]
               ELSE Append(rest, [word |-> w, count |-> 1])

\* The place of e in a list sorted by descending count: after every entry
\* whose count is at least e's, so that equal counts keep their order.
InsertByCountBeforeEqual(sorted, e) ==
    LET before == { k \in DOMAIN sorted : sorted[k].count > e.count }
        n      == Cardinality(before)
    IN  SubSeq(sorted, 1, n) \o <<e>> \o SubSeq(sorted, n + 1, Len(sorted))
InsertByCount(sorted, e) ==
    LET before == { k \in DOMAIN sorted : sorted[k].count >= e.count }
        n      == Cardinality(before)
    IN  SubSeq(sorted, 1, n) \o <<e>> \o SubSeq(sorted, n + 1, Len(sorted))

RECURSIVE SortedByCount(_)
SortedByCount(es) ==
    IF es = <<>> THEN <<>>
    ELSE InsertByCount(SortedByCount(SubSeq(es, 1, Len(es) - 1)), es[Len(es)])

\* Counter.most_common(n): sorted(items, key=count, reverse=True)[:n].
most_common(counter, n) ==
    SubSeq(SortedByCount(counter), 1, Min(Max(n, 0), Len(counter)))

\* stopwords=None stands for the built-in list (lines 119-121).
NoStopwords == [given |-> FALSE]
GivenStopwords(words) == [given |-> TRUE, words |-> words]
StopwordsOf(stop) == IF stop.given THEN stop.words ELSE DefaultStopwords

extract_common_words(cs, m, n, stop) ==
    most_common(Counter(AllWords(cs, m, StopwordsOf(stop))), n)

(***************************************************************************)
(* The remote API: commentThreads().list                                   *)
(***************************************************************************)
\* A page token is a cursor: token t continues after the first t-1 comments.
CursorOf(token) == IF token = NoToken THEN 0 ELSE token - 1

\* The responses the API may give to a request: k items from the cursor on,
\* never more than maxResults; a continuation token whenever comments remain,
\* and possibly also on the last page.
Responses(token, maxResults) ==
    LET start == Min(CursorOf(token), Len(video))
        left  == Len(video) - start
    IN  { [items |-> SubSeq(video, start + 1, start + k),
           nextPageToken |-> IF more THEN start + k + 1 ELSE NoToken] :
            <<k, more>> \in
              { km \in (0 .. Min(maxResults, left)) \X BOOLEAN :
                    (km[1] < left) => km[2] } }

(***************************************************************************)
(* get_comments (lines 60-98)                                              *)
(***************************************************************************)
\* maxResults of a request (line 73).
PageSizeAlways100(max, count) == PageCap
PageSize(max, count) == Min(PageCap, max - count)

\* pageToken of a request (line 74).
PageTokenOmitted(token) == NoToken
PageTokenArg(token) == token

\* response.get('nextPageToken') (line 91).
NextPageTokenOf(response) == response.nextPageToken

\* The value returned from the except clause (line 98).
ReturnOnErrorPartial(acc) == acc
ReturnOnError(acc) == <<>>

\* while comment_count < max_comments: issue the request (lines 69-76).
Request ==
    /\ pc = "gc_loop"
    /\ comment_count < max_comments
    /\ requested' = TRUE
    /\ reqToken' = PageTokenArg(next_page_token)
    /\ reqSize' = PageSize(max_comments, comment_count)
    /\ pc' = "gc_wait"
    /\ UNCHANGED <<comments, comment_count, next_page_token, ret, respToken,
                   failed, accAtFail>>
    /\ UNCHANGED <<inputVars, reportVars, video_id, details, detailReqs>>

\* The while condition is false on entry of an iteration: return comments
\* (lines 69, 95).
LoopExit ==
    /\ pc = "gc_loop"
    /\ ~(comment_count < max_comments)
    /\ ret' = comments
    /\ pc' = "gc_done"
    /\ UNCHANGED <<comments, comment_count, next_page_token, requested,
                   reqToken, reqSize, respToken, failed, accAtFail>>
    /\ UNCHANGED <<inputVars, reportVars, video_id, details, detailReqs>>

\* The response arrives: append its items, take its token, and break or loop
\* (lines 78-93, 95).
Response ==
    /\ pc = "gc_wait"
    /\ \E response \in Responses(reqToken, reqSize) :
         LET acc   == comments \o response.items
             count == comment_count + Len(response.items)
             token == NextPageTokenOf(response)
         IN  /\ comments' = acc
             /\ comment_count' = count
             /\ next_page_token' = token
             /\ respToken' = response.nextPageToken
             /\ IF token = NoToken \/ count >= max_comments
                  THEN ret' = acc /\ pc' = "gc_done"
                  ELSE ret' = ret /\ pc' = "gc_loop"
    /\ UNCHANGED <<requested, reqToken, reqSize, failed, accAtFail>>
    /\ UNCHANGED <<inputVars, reportVars, video_id, details, detailReqs>>

\* The request raises HttpError: print, return [] (lines 96-98).
RequestFails ==
    /\ pc = "gc_wait"
    /\ failed' = TRUE
    /\ accAtFail' = comments
    /\ ret' = ReturnOnError(comments)
    /\ pc' = "gc_done"
    /\ UNCHANGED <<comments, comment_count, next_page_token, requested,
                   reqToken, reqSize, respToken>>
    /\ UNCHANGED <<inputVars, reportVars, video_id, details, detailReqs>>

(***************************************************************************)
(* get_video_details (lines 35-58) and the videos().list lookup            *)
(***************************************************************************)
\* What the lookup may do: return the video, return no items, raise HttpError.
MetadataOutcomes == {"ok", "empty", "error"}

NoDetails == [found |-> FALSE]

\* The dictionary built from items[0], or None.
get_video_details_unchecked(vid, outcome) == [found |-> TRUE, video |-> vid]
get_video_details(vid, outcome) ==
    IF outcome = "ok" THEN [found |-> TRUE, video |-> vid] ELSE NoDetails

(***************************************************************************)
(* The report (lines 156-176)                                              *)
(***************************************************************************)
\* by='like_count', ascending=False (line 162).
SortKeyAscending(c) == 0 - c.like_count
SortKey(c) == c.like_count

\* The orders a sort by descending key may leave the rows of df in.  The
\* default kind of sort_values is quicksort, which is not stable: rows of
\* equal key may come out in any order.
RECURSIVE OrdersOf(_, _)
OrdersOf(df, rows) ==
    IF rows = {} THEN { <<>> }
    ELSE LET first == { i \in rows :
                          \A j \in rows : SortKey(df[j]) <= SortKey(df[i]) }
         IN  UNION { { <<i>> \o o : o \in OrdersOf(df, rows \ {i}) } :
                       i \in first }

sort_values(df) == OrdersOf(df, DOMAIN df)

\* DataFrame.head(n)
head(order, n) == SubSeq(order, 1, Min(n, Len(order)))

\* df['sentiment'].value_counts().to_dict(): the labels that occur.
Labels == {"positive", "negative", "neutral"}
value_counts(df) ==
    LET n(l) == Cardinality({ i \in DOMAIN df : df[i].sentiment = l })
    IN  [l \in { x \in Labels : n(x) > 0 } |-> n(l)]

RECURSIVE SumOf(_, _)
SumOf(df, field) ==
    IF df = <<>> THEN 0 ELSE Head(df)[field] + SumOf(Tail(df), field)

\* Series.mean(), kept as the fraction sum / count.
mean(df, field) == [sum |-> SumOf(df, field), count |-> Len(df)]

(***************************************************************************)
(* generate_report (lines 131-178)                                         *)
(***************************************************************************)
ErrInvalidUrl == [error |-> "Invalid YouTube URL"]
ErrNoDetails == [error |-> "Could not retrieve video details"]
ErrNoComments == [error |-> "No comments found or comments are disabled"]

\* Lines 133-137.
ExtractVideoId ==
    /\ pc = "start"
    /\ video_id' = extract_video_id(url)
    /\ IF ~video_id'.matched
         THEN results' = ErrInvalidUrl /\ pc' = "done"
         ELSE results' = results /\ pc' = "details"
    /\ UNCHANGED <<inputVars, fetchVars, details, detailReqs, analyzed,
                   common_words, top_comments>>

\* Lines 140-145: the lookup, its check, and the entry of get_comments
\* (lines 62-66).
GetVideoDetails ==
    /\ pc = "details"
    /\ detailReqs' = detailReqs + 1
    /\ details' = get_video_details(video_id.group, metadata)
    /\ IF ~details'.found
         THEN /\ results' = ErrNoDetails
              /\ pc' = "done"
              /\ UNCHANGED <<comments, comment_count, next_page_token>>
         ELSE /\ results' = results
              /\ pc' = "gc_loop"
              /\ comments' = <<>>
              /\ next_page_token' = NoToken
              /\ comment_count' = 0
    /\ UNCHANGED <<ret, requested, reqToken, reqSize, respToken, failed,
                   accAtFail>>
    /\ UNCHANGED <<inputVars, video_id, analyzed, common_words, top_comments>>

\* Lines 146-147.
CheckComments ==
    /\ pc = "gc_done"
    /\ IF ret = <<>>
         THEN results' = ErrNoComments /\ pc' = "done"
         ELSE results' = results /\ pc' = "analyze"
    /\ UNCHANGED <<inputVars, fetchVars, video_id, details, detailReqs,
                   analyzed, common_words, top_comments>>

\* Line 150.
AnalyzeSentiment ==
    /\ pc = "analyze"
    /\ analyzed' = analyze_sentiment(ret, scorer)
    /\ pc' = "words"
    /\ UNCHANGED <<inputVars, fetchVars, video_id, details, detailReqs,
                   common_words, top_comments, results>>

\* Line 153.
ExtractCommonWords ==
    /\ pc = "words"
    /\ common_words' =
          extract_common_words(analyzed, min_length, max_words, stopwords)
    /\ pc' = "compile"
    /\ UNCHANGED <<inputVars, fetchVars, video_id, details, detailReqs,
                   analyzed, top_comments, results>>

\* Lines 156-178.
CompileReport ==
    /\ pc = "compile"
    /\ \E order \in sort_values(analyzed) :
         LET popular == head(order, TopK)
         IN  top_comments' = [k \in DOMAIN popular |-> analyzed[popular[k]]]
    /\ results' =
          [video_details |-> details,
           comment_stats |->
             [total_analyzed |-> Len(analyzed),
              sentiment_distribution |-> value_counts(analyzed),
              avg_polarity |-> mean(analyzed, "polarity"),
              avg_subjectivity |-> mean(analyzed, "subjectivity")],
           common_words |-> common_words,
           top_comments |-> top_comments',
           all_comments |-> analyzed]
    /\ pc' = "done"
    /\ UNCHANGED <<inputVars, fetchVars, video_id, details, detailReqs,
                   analyzed, common_words>>

(***************************************************************************)
(* Inputs                                                                  *)
(***************************************************************************)
\* The comment the API holds at position i of a long video.
PlainComment(i) == [id |-> i, text |-> <<>>, like_count |-> 0]

LongVideo(n) == [i \in 1 .. n |-> PlainComment(i)]

\* Small counts, and counts around the page size.
FetchCounts == (0 .. SmallN) \cup ((PageCap - 1) .. (PageCap + Over))

FetchMaxComments == {0 - 1} \cup FetchCounts

NoScorer == [t \in {} |-> 0]

\* Values of the variables a call does not use.
IdleReport ==
    /\ analyzed = <<>>
    /\ common_words = <<>>
    /\ top_comments = <<>>
    /\ results = [pending |-> TRUE]

IdleFetch ==
    /\ comments = <<>>
    /\ comment_count = 0
    /\ next_page_token = NoToken
    /\ ret = <<>>
    /\ requested = FALSE
    /\ reqToken = NoToken
    /\ reqSize = 0
    /\ respToken = NoToken
    /\ failed = FALSE
    /\ accAtFail = <<>>

IdleLookup ==
    /\ video_id = NoMatch
    /\ details = NoDetails
    /\ metadata = "ok"
    /\ detailReqs = 0

\* extract_common_words as generate_report calls it: the defaults.
DefaultWords ==
    /\ min_length = DefaultMinLength
    /\ max_words = DefaultMaxWords
    /\ stopwords = NoStopwords

(***************************************************************************)
(* generate_report(url, max_comments)                                      *)
(***************************************************************************)
TextNice == <<"n", "i", "c", "e">>
TextThis == <<"T", "h", "i", "s">>
ReportTexts == {TextNice, TextThis}

\* TextBlob on the two texts.
ReportScorer ==
    [t \in ReportTexts |->
       IF t = TextNice THEN [polarity |-> 60000, subjectivity |-> 100000]
                       ELSE [polarity |-> 0, subjectivity |-> 0]]

ReportUrls ==
    { <<"/">> \o Rep("a", IdLen),
      <<"?", "v", "=">> \o Rep("b", IdLen) \o <<"&", "t", "=", "1">>,
      <<"?", "v", "=">> \o Rep("b", IdLen - 1) }

\* The videos of at most n comments; id is the position in the API's order.
Videos(n, texts, likes) ==
    { [i \in DOMAIN v |-> [id |-> i, text |-> v[i][1], like_count |-> v[i][2]]] :
        v \in SeqsUpTo(texts \X likes, n) }

Init ==
    /\ pc = "start"
    /\ url \in ReportUrls
    /\ max_comments \in (0 - 1) .. (SmallN + 1)
    /\ video \in Videos(SmallN, ReportTexts, 0 .. MaxLikes)
    /\ metadata \in MetadataOutcomes
    /\ video_id = NoMatch
    /\ details = NoDetails
    /\ detailReqs = 0
    /\ scorer = ReportScorer
    /\ IdleFetch
    /\ DefaultWords
    /\ IdleReport

Next ==
    \/ ExtractVideoId
    \/ GetVideoDetails
    \/ Request
    \/ LoopExit
    \/ Response
    \/ RequestFails
    \/ CheckComments
    \/ AnalyzeSentiment
    \/ ExtractCommonWords
    \/ CompileReport

Spec == Init /\ [][Next]_vars

(***************************************************************************)
(* get_comments called directly: get_comments(video_id, max_comments).     *)
(***************************************************************************)
InitFetch ==
    /\ pc = "gc_loop"
    /\ url = <<>>
    /\ max_comments \in FetchMaxComments
    /\ \E n \in FetchCounts : video = LongVideo(n)
    /\ scorer = NoScorer
    /\ IdleLookup
    /\ IdleFetch
    /\ DefaultWords
    /\ IdleReport

NextFetch == Request \/ LoopExit \/ Response \/ RequestFails

SpecFetch == InitFetch /\ [][NextFetch]_vars

\* The interpreter keeps running the call until it returns.
FairFetch == InitFetch /\ [][NextFetch]_vars /\ WF_vars(NextFetch)


(***************************************************************************)
(* extract_video_id on URLs put together from markers, separators and      *)
(* runs of identifier characters one short of, equal to and one over the   *)
(* identifier length.                                                      *)
(***************************************************************************)
MixedRun(n) ==
    [i \in 1 .. n |-> <<"a", "Z", "7", "_", "-">>[((i - 1) % 5) + 1]]

UrlPieces ==
    { <<"v", "=">>, <<"/">>, <<"?">> } \cup
    { MixedRun(n) : n \in (IdLen - 1) .. (IdLen + 1) } \cup
    { Rep("b", n) : n \in (IdLen - 1) .. (IdLen + 1) }

UrlInputs == { Flatten(ps) : ps \in SeqsUpTo(UrlPieces, MaxPieces) }

InitUrl ==
    /\ pc = "start"
    /\ url \in UrlInputs
    /\ max_comments = PageCap
    /\ video = <<>>
    /\ scorer = NoScorer
    /\ IdleLookup
    /\ IdleFetch
    /\ DefaultWords
    /\ IdleReport

NextUrl == ExtractVideoId

SpecUrl == InitUrl /\ [][NextUrl]_vars

(***************************************************************************)
(* analyze_sentiment on short comment lists, with every scorer over        *)
(* polarities at and around the two thresholds.                            *)
(***************************************************************************)
SentimentTexts == { <<>>, <<"a">> }

Polarities ==
    { 0 - 100000, 0 - (PolarityThreshold + 1), 0 - PolarityThreshold,
      0 - (PolarityThreshold - 1), 0, PolarityThreshold - 1,
      PolarityThreshold, PolarityThreshold + 1, 100000 }

Scores == [polarity : Polarities, subjectivity : {0, 100000}]

InitSentiment ==
    /\ pc = "analyze"
    /\ url = <<>>
    /\ max_comments = PageCap
    /\ video = <<>>
    /\ scorer \in [SentimentTexts -> Scores]
    /\ IdleLookup
    /\ comments = <<>>
    /\ comment_count = 0
    /\ next_page_token = NoToken
    /\ ret \in Videos(SmallN, SentimentTexts, {0}) \ { <<>> }
    /\ requested = FALSE
    /\ reqToken = NoToken
    /\ reqSize = 0
    /\ respToken = NoToken
    /\ failed = FALSE
    /\ accAtFail = <<>>
    /\ DefaultWords
    /\ IdleReport

NextSentiment == AnalyzeSentiment

SpecSentiment == InitSentiment /\ [][NextSentiment]_vars

(***************************************************************************)
(* extract_common_words on comments put together from a few words, some    *)
(* of them glued to a digit or an underscore.                              *)
(***************************************************************************)
Bar == <<"|">>

WordItems ==
    { <<"a">>, <<"b">>, <<"A", "b">>, <<"a", "1">>, <<"b", "_", "a">> }

\* The texts of a list of items: the items joined by a space, a new text
\* after each Bar.
RECURSIVE TextsOf(_, _)
TextsOf(items, cur) ==
    IF items = <<>> THEN <<cur>>
    ELSE IF Head(items) = Bar THEN <<cur>> \o TextsOf(Tail(items), <<>>)
    ELSE TextsOf(Tail(items),
                 IF cur = <<>> THEN Head(items)
                               ELSE cur \o <<" ">> \o Head(items))

NeutralScore == [polarity |-> 0, subjectivity |-> 0]

AnnotatedTexts(texts) ==
    [i \in DOMAIN texts |->
       Annotate([id |-> i, text |-> texts[i], like_count |-> 0], NeutralScore)]

WordInputs ==
    { AnnotatedTexts(TextsOf(items, <<>>)) :
        items \in SeqsUpTo(WordItems \cup {Bar}, MaxItems) }

InitWords ==
    /\ pc = "words"
    /\ url = <<>>
    /\ max_comments = PageCap
    /\ video = <<>>
    /\ scorer = NoScorer
    /\ IdleLookup
    /\ IdleFetch
    /\ analyzed \in WordInputs
    /\ min_length \in 1 .. MaxMinLength
    /\ max_words \in 0 .. MaxMaxWords
    /\ stopwords \in { NoStopwords, GivenStopwords({}),
                       GivenStopwords({ <<"a">> }) }
    /\ common_words = <<>>
    /\ top_comments = <<>>
    /\ results = [pending |-> TRUE]

NextWords == ExtractCommonWords

SpecWords == InitWords /\ [][NextWords]_vars

(***************************************************************************)
(* The report on data frames of up to TopK + DfExtra rows.                 *)
(***************************************************************************)
DataFrames ==
    { [i \in DOMAIN ls |->
         Annotate([id |-> i, text |-> <<>>, like_count |-> ls[i]],
                  NeutralScore)] :
        ls \in SeqsUpTo(0 .. MaxLikes, TopK + DfExtra) \ { <<>> } }

InitTop ==
    /\ pc = "compile"
    /\ url = <<>>
    /\ max_comments = PageCap
    /\ video = <<>>
    /\ scorer = NoScorer
    /\ video_id = NoMatch
    /\ details = get_video_details(Rep("a", IdLen), "ok")
    /\ metadata = "ok"
    /\ detailReqs = 1
    /\ IdleFetch
    /\ DefaultWords
    /\ analyzed \in DataFrames
    /\ common_words = <<>>
    /\ top_comments = <<>>
    /\ results = [pending |-> TRUE]

NextTop == CompileReport

SpecTop == InitTop /\ [][NextTop]_vars


(***************************************************************************)
(* Properties of get_comments                                              *)
(***************************************************************************)
\* C1: when get_comments has returned for a positive max_comments and no
\* request failed, the returned list is the first min(available,
\* max_comments) comments of the video, in the API's order.
C1_ReturnsFirstMin ==
    (pc = "gc_done" /\ ~failed /\ max_comments > 0) =>
        ret = SubSeq(video, 1, Min(Len(video), max_comments))

\* A call that needed a second page returned exactly max_comments comments
\* of a longer video.
C1_Witness ==
    /\ pc = "gc_done"
    /\ ~failed
    /\ max_comments > PageCap
    /\ Len(video) > max_comments
    /\ Len(ret) = max_comments
    /\ reqToken # NoToken

\* C8: every request is issued from the loop head with the accumulated
\* count below max_comments; it carries the token of the latest response (no
\* token on the first request), and asks for min(100, max_comments minus the
\* number accumulated); after a response without a token no request follows.
C8_RequestChain ==
    [][(pc = "gc_loop" /\ pc' = "gc_wait") =>
         /\ reqToken' = respToken
         /\ (~requested => reqToken' = NoToken)
         /\ (requested => respToken # NoToken)
         /\ Len(comments) < max_comments
         /\ reqSize' = Min(PageCap, max_comments - Len(comments))]_vars

\* A later request in flight: it carries a token and asks for the remainder.
C8_Witness ==
    /\ pc = "gc_wait"
    /\ reqToken # NoToken
    /\ reqToken = respToken
    /\ Len(comments) > 0
    /\ reqSize = max_comments - Len(comments)
    /\ reqSize < PageCap

\* C10: get_comments always returns.
C10_Terminates == <>(pc = "gc_done")

C3_ErrorOrder ==
    /\ (pc # "start" /\ ~video_id.matched) =>
           /\ detailReqs = 0
           /\ ~requested
           /\ pc = "done"
           /\ results = ErrInvalidUrl
    /\ requested => (video_id.matched /\ metadata = "ok" /\ detailReqs = 1)
    /\ (detailReqs > 0 /\ metadata # "ok") =>
           (pc = "done" /\ results = ErrNoDetails)
    /\ pc = "done" =>
           /\ results = ErrInvalidUrl <=> ~video_id.matched
           /\ results = ErrNoDetails <=> (video_id.matched /\ metadata # "ok")
           /\ results = ErrNoComments <=>
                (video_id.matched /\ metadata = "ok" /\ ret = <<>>)
           /\ results = ErrNoComments => (details.found /\ detailReqs = 1)
           /\ "error" \in DOMAIN results => DOMAIN results = {"error"}

\* The no-comments error, returned after the details and an empty page were
\* fetched.
C3_Witness ==
    /\ pc = "done"
    /\ results = ErrNoComments
    /\ details.found
    /\ requested
    /\ ~failed

(***************************************************************************)
(* Properties of analyze_sentiment                                         *)
(***************************************************************************)
\* C4: after analyze_sentiment the list has the length and order it had,
\* every comment carries polarity, subjectivity and sentiment, and the label
\* is positive iff polarity > 0.1, negative iff polarity < -0.1, neutral
\* otherwise.
C4_LabelByPolarity ==
    pc = "words" =>
        /\ Len(analyzed) = Len(ret)
        /\ \A i \in DOMAIN analyzed :
             LET c == analyzed[i]
             IN  /\ DOMAIN c = DOMAIN ret[i] \cup
                                 {"polarity", "subjectivity", "sentiment"}
                 /\ \A f \in DOMAIN ret[i] : c[f] = ret[i][f]
                 /\ c.polarity = scorer[c.text].polarity
                 /\ c.subjectivity = scorer[c.text].subjectivity
                 /\ c.sentiment = "positive" <=> c.polarity > PolarityThreshold
                 /\ c.sentiment = "negative" <=>
                      c.polarity < 0 - PolarityThreshold
                 /\ c.sentiment = "neutral" <=>
                      /\ c.polarity <= PolarityThreshold
                      /\ c.polarity >= 0 - PolarityThreshold

\* Two comments annotated, one at a threshold and one just above it.
C4_Witness ==
    /\ pc = "words"
    /\ Len(analyzed) = 2
    /\ analyzed[1].polarity = PolarityThreshold
    /\ analyzed[1].sentiment = "neutral"
    /\ analyzed[2].polarity = PolarityThreshold + 1
    /\ analyzed[2].sentiment = "positive"

(***************************************************************************)
(* Properties of extract_common_words                                      *)
(***************************************************************************)
\* The place in the scan where a word first occurs.
FirstOccurrence(ws, w) == CHOOSE k \in DOMAIN ws :
                            ws[k] = w /\ \A j \in 1 .. (k - 1) : ws[j] # w

\* C5: the result is sorted by non-increasing count, entries of equal count
\* are in the order of their first occurrence in the scan, there are at most
\* max_words entries, none shorter than min_length and none a stop word.
C5_SortedAndFiltered ==
    pc = "compile" =>
        LET r    == common_words
            stop == StopwordsOf(stopwords)
            scan == AllWords(analyzed, min_length, stop)
        IN  /\ Len(r) <= max_words
            /\ \A k \in DOMAIN r :
                 /\ Len(r[k].word) >= min_length
                 /\ r[k].word \notin stop
                 /\ \E j \in DOMAIN scan : scan[j] = r[k].word
            /\ \A k, l \in DOMAIN r :
                 k < l =>
                   /\ r[k].count >= r[l].count
                   /\ r[k].count = r[l].count =>
                        FirstOccurrence(scan, r[k].word) <
                          FirstOccurrence(scan, r[l].word)

\* Two words of equal count reported, with a third word cut off by
\* max_words.
C5_Witness ==
    /\ pc = "compile"
    /\ Len(common_words) = 2
    /\ max_words = 2
    /\ common_words[1].count = common_words[2].count
    /\ Len(Counter(AllWords(analyzed, min_length, StopwordsOf(stopwords)))) > 2

\* The maximal runs of letters of s of length m or more, left to right.
RECURSIVE AlphaRunsFrom(_, _, _)
AlphaRunsFrom(s, i, m) ==
    IF i > Len(s) THEN <<>>
    ELSE IF ~IsAlpha(s[i]) THEN AlphaRunsFrom(s, i + 1, m)
    ELSE LET e == CHOOSE x \in i .. Len(s) :
                    /\ \A j \in i .. x : IsAlpha(s[j])
                    /\ (x = Len(s) \/ ~IsAlpha(s[x + 1]))
         IN  (IF e - i + 1 >= m THEN <<SubSeq(s, i, e)>> ELSE <<>>) \o
               AlphaRunsFrom(s, e + 1, m)

\* The maximal runs of word characters (letters, digits, underscore) of s
\* that are made of letters only and have length m or more, left to right.
RECURSIVE LetterWordsFrom(_, _, _)
LetterWordsFrom(s, i, m) ==
    IF i > Len(s) THEN <<>>
    ELSE IF ~IsWordChar(s[i]) THEN LetterWordsFrom(s, i + 1, m)
    ELSE LET e == CHOOSE x \in i .. Len(s) :
                    /\ \A j \in i .. x : IsWordChar(s[j])
                    /\ (x = Len(s) \/ ~IsWordChar(s[x + 1]))
         IN  (IF e - i + 1 >= m /\ \A j \in i .. e : IsAlpha(s[j])
                THEN <<SubSeq(s, i, e)>> ELSE <<>>) \o
               LetterWordsFrom(s, e + 1, m)

\* The stream of tokens of all comments under a tokenizer, stop words out.
RECURSIVE TokensOf(_, _)
TokensOf(texts, stop) ==
    IF texts = <<>> THEN <<>>
    ELSE NotIn(Head(texts), stop) \o TokensOf(Tail(texts), stop)

AlphaRunTokens ==
    TokensOf([i \in DOMAIN analyzed |->
                AlphaRunsFrom(lower(analyzed[i].text), 1, min_length)],
             StopwordsOf(stopwords))

LetterWordTokens ==
    TokensOf([i \in DOMAIN analyzed |->
                LetterWordsFrom(lower(analyzed[i].text), 1, min_length)],
             StopwordsOf(stopwords))

\* The max_words entries of highest count of the count table of a stream.
TopOfTable(tokens) ==
    LET table == Counter(tokens)
        r     == common_words
    IN  /\ \A k \in DOMAIN r : \E t \in DOMAIN table : table[t] = r[k]
        /\ \A k, l \in DOMAIN r : k # l => r[k].word # r[l].word
        /\ Len(r) = Min(max_words, Len(table))
        /\ \A t \in DOMAIN table :
             (\A k \in DOMAIN r : r[k].word # table[t].word) =>
                \A k \in DOMAIN r : r[k].count >= table[t].count

\* C9 as stated: the words counted are the maximal runs of letters of
\* length min_length or more of the lowercased texts, stop words out.
C9_MaximalAlphaRuns ==
    pc = "compile" => TopOfTable(AlphaRunTokens)

\* C9 as amended: the words counted are the maximal runs of word characters
\* (letters, digits, underscore) that consist of letters only, of length
\* min_length or more, of the lowercased texts, stop words out; a run of
\* letters that touches a digit or an underscore is not counted.
C9_LetterOnlyWords ==
    pc = "compile" => TopOfTable(LetterWordTokens)

\* Words were counted from texts in which a run of letters touches a digit
\* or an underscore.
C9_Witness ==
    /\ pc = "compile"
    /\ common_words # <<>>
    /\ AlphaRunTokens # LetterWordTokens
    /\ \E i \in DOMAIN analyzed : \E j \in DOMAIN analyzed[i].text :
         analyzed[i].text[j] = "_"

(***************************************************************************)
(* Properties of the report's top comments                                 *)
(***************************************************************************)
\* The rows of analyzed that top is made of, highest like counts first.
IsTopByLikes(top) ==
    LET n == Len(analyzed)
        chosen == { top[k].id : k \in DOMAIN top }
    IN  /\ Len(top) = Min(TopK, n)
        /\ \A k \in DOMAIN top :
             top[k].id \in 1 .. n /\ top[k] = analyzed[top[k].id]
        /\ \A k, l \in DOMAIN top : k # l => top[k].id # top[l].id
        /\ \A k, l \in DOMAIN top :
             k < l => top[k].like_count >= top[l].like_count
        /\ \A i \in (1 .. n) \ chosen : \A k \in DOMAIN top :
             analyzed[i].like_count <= top[k].like_count

\* Rows of equal like count are taken and listed in fetch order.
TiesInFetchOrder(top) ==
    LET n == Len(analyzed)
        chosen == { top[k].id : k \in DOMAIN top }
    IN  /\ \A k, l \in DOMAIN top :
             (k < l /\ top[k].like_count = top[l].like_count) =>
                top[k].id < top[l].id
        /\ \A i \in (1 .. n) \ chosen : \A k \in DOMAIN top :
             analyzed[i].like_count = top[k].like_count => top[k].id < i

\* C6 as stated: top_comments are the min(5, n) most liked comments in
\* descending order of like count, equal like counts in fetch order.
C6_TopByLikesStable ==
    pc = "done" =>
        /\ IsTopByLikes(results.top_comments)
        /\ TiesInFetchOrder(results.top_comments)

\* C6 as amended: top_comments are min(5, n) distinct comments of highest
\* like count, in descending order of like count; which of the comments of
\* equal like count are taken, and in what order, is not determined.
C6_TopByLikes ==
    pc = "done" => IsTopByLikes(results.top_comments)

\* A report of more than five comments whose top five hold two of equal
\* like count and leave one of that like count out.
C6_Witness ==
    /\ pc = "done"
    /\ Len(analyzed) > TopK
    /\ Len(results.top_comments) = TopK
    /\ results.top_comments[1].like_count > results.top_comments[TopK].like_count
    /\ \E i \in DOMAIN analyzed :
         /\ \A k \in 1 .. TopK : results.top_comments[k].id # i
         /\ analyzed[i].like_count = results.top_comments[TopK].like_count

(***************************************************************************)
(* Properties of extract_video_id                                          *)
(***************************************************************************)
\* Position g starts a run of exactly IdLen identifier characters that
\* immediately follows "v=" or "/".
ExactRunAt(u, g) ==
    /\ \/ g >= 2 /\ u[g - 1] = "/"
       \/ g >= 3 /\ u[g - 2] = "v" /\ u[g - 1] = "="
    /\ g + IdLen - 1 <= Len(u)
    /\ \A j \in g .. (g + IdLen - 1) : IsIdChar(u[j])
    /\ (g + IdLen > Len(u) \/ ~IsIdChar(u[g + IdLen]))

\* C7: extract_video_id returns the first run of exactly 11 identifier
\* characters that immediately follows "v=" or "/", and None when the URL
\* holds no such run.
C7_FirstExactRun ==
    pc # "start" =>
        LET starts == { g \in 1 .. Len(url) : ExactRunAt(url, g) }
        IN  IF starts = {} THEN video_id = NoMatch
            ELSE LET g == CHOOSE x \in starts : \A y \in starts : x <= y
                 IN  video_id = [matched |-> TRUE,
                                 group |-> SubSeq(url, g, g + IdLen - 1)]

=============================================================================
